---- MODULE Spec2Model ----
(***************************************************************************)
(* A model of the nuclear-news API (apps/api/app): the articles and        *)
(* sources routers over the Article, Source and RawArticle tables, the     *)
(* ArticleProcessor of services/ai/processor.py, and the scheduler and     *)
(* pipeline orchestrator that fill and advance the raw_articles table.     *)
(*                                                                         *)
(* Each HTTP request runs in a database session of its own (get_db); the   *)
(* steps of a handler that touch the database are separate actions, so     *)
(* requests interleave at the SELECT, at the handler's local work and at   *)
(* the COMMIT, as they do under PostgreSQL's READ COMMITTED.               *)
(***************************************************************************)
EXTENDS Integers, Sequences, FiniteSets, TLC

VARIABLES
    articles,       \* the articles table: article id -> row
    sources,        \* the sources table: source id -> row
    raw_articles,   \* the raw_articles table: row id -> row
    now,            \* the clock datetime.utcnow() reads
    req,            \* session -> the request it is serving and where it stands
    nreq,           \* requests started so far
    scraper,        \* scrape worker -> the item it is storing
    worker,         \* pipeline worker -> the RawArticle it is handling
    scrape_tasks,   \* the Celery queue of scrape_source tasks: source ids
    model,          \* settings.AI_MODEL
    provider,       \* ArticleProcessor.provider
    ppc,            \* where the processor's call stands
    response,       \* the provider's reply: its text and its usage
    sent,           \* what the provider put in the reply (for the claims)
    result          \* what process returned or raised

api_vars == <<articles, sources, now, req, nreq>>
pipeline_vars == <<raw_articles, scraper, worker, scrape_tasks>>
processor_vars == <<model, provider, ppc, response, sent, result>>
vars == <<api_vars, pipeline_vars, processor_vars>>

(***************************************************************************)
(* Bounds.                                                                 *)
(***************************************************************************)
MaxRequests == 2

Sessions == {"s1", "s2"}

\* Rows that exist, and the ids a request may name (one of them names no row).
\* A handler reads and writes the one row its path names, so one row is enough.
ArticleIds == {1}
SourceIds == {1}
RequestIds == {1, 2}

(***************************************************************************)
(* models/article.py: the Article and Source rows.                         *)
(***************************************************************************)
NULL == "NULL"

\* Columns declared nullable=False.
NotNullColumns == {"slug", "title", "excerpt", "content", "category",
                   "source_ids", "original_urls", "name", "url", "adapter_type"}

ArticleColumns == {"slug", "title", "excerpt", "content", "category", "tags",
                   "significance_score", "cover_image_url", "source_ids",
                   "original_urls", "status", "published_at", "ai_model",
                   "ai_prompt_version", "processing_cost_usd"}

\* A row as the pipeline leaves it: status takes the column default "draft",
\* published_at is unset (0 stands for SQL NULL in this integer column).
Article(i) ==
    [slug |-> "a", title |-> "a", excerpt |-> "a", content |-> "a",
     category |-> "a", tags |-> "a", significance_score |-> "a",
     cover_image_url |-> "a", source_ids |-> "a", original_urls |-> "a",
     status |-> "draft", published_at |-> 0, ai_model |-> "a",
     ai_prompt_version |-> "a", processing_cost_usd |-> "a"]

SourceColumns == {"name", "slug", "url", "adapter_type", "adapter_config",
                  "is_active", "scrape_interval_minutes", "last_scraped_at"}

\* is_active and scrape_interval_minutes take their column defaults.
Source(slug) ==
    [name |-> "a", slug |-> slug, url |-> "a", adapter_type |-> "rss",
     adapter_config |-> "a", is_active |-> "true",
     scrape_interval_minutes |-> "60", last_scraped_at |-> NULL]

(***************************************************************************)
(* schemas/article.py and schemas/source.py.  A body is a JSON object; a   *)
(* schema keeps the keys it declares and ignores the others (pydantic's    *)
(* default), and model_dump(exclude_unset=True) gives back the kept keys.  *)
(***************************************************************************)
ArticleUpdate == {"title", "excerpt", "content", "category", "tags",
                  "cover_image_url"}

SourceUpdate == {"name", "url", "adapter_config", "is_active",
                 "scrape_interval_minutes"}

EmptyBody == [k \in {} |-> NULL]

\* One key and its value.
Body(k, v) == [x \in {k} |-> v]

\* The bodies sent to update_article: none or one key, a key of the schema or
\* one it does not declare; null for one NOT NULL column and one nullable.
ArticleBodies ==
    {EmptyBody}
    \cup {Body(k, "b") : k \in ArticleUpdate \cup {"processing_cost_usd"}}
    \cup {Body("title", NULL), Body("cover_image_url", NULL),
          Body("status", "published"),
          [x \in {"tags", "status"} |-> IF x = "tags" THEN "b" ELSE "published"]}

\* The bodies sent to update_source.
SourceBodies == {EmptyBody, Body("name", "b"), Body("is_active", "false"),
                 Body("slug", "b")}

\* The slugs sent to create_source (SourceCreate's other fields do not vary).
SourceSlugs == {"s1", "s2"}

\* The schema without its filter: every key of the body reaches the handler.
model_dump_extra_allowed(schema, body) == body

model_dump(schema, body) == [k \in DOMAIN body \cap schema |-> body[k]]

(***************************************************************************)
(* models/base.py: get_db.  One session per request.                       *)
(***************************************************************************)
ArticleOps == {"get_article", "update_article", "publish_article",
               "archive_article"}
SourceOps == {"update_source", "trigger_scrape"}

Idle == [op |-> "none", id |-> 0, data |-> EmptyBody, pc |-> "idle",
         loaded |-> Article(0), local |-> Article(0), resp |-> 0]

\* A session that has answered its request: closed, the status code sent.
Answer(op, id, code) == [Idle EXCEPT !.op = op, !.id = id, !.resp = code]

\* A session that has loaded the row its request names.
Loaded(op, id, data, row) ==
    [op |-> op, id |-> id, data |-> data, pc |-> "handler", loaded |-> row,
     local |-> row, resp |-> 0]

\* The columns the session has changed since it loaded the row: the ones the
\* unit of work writes in its UPDATE.
Dirty(r) == {c \in DOMAIN r.local : r.local[c] # r.loaded[c]}

\* The row after that UPDATE.
Flushed(row, r) ==
    [c \in DOMAIN row |-> IF c \in Dirty(r) THEN r.local[c] ELSE row[c]]

\* A NULL in a NOT NULL column fails the statement.
IntegrityError(r) == \E c \in Dirty(r) \cap NotNullColumns : r.local[c] = NULL

\* setattr(row, field, value) for every field of the dumped body.
SetAttrs(row, data) ==
    [c \in DOMAIN row |-> IF c \in DOMAIN data THEN data[c] ELSE row[c]]

\* datetime.utcnow(): the clock does not go back; since the last reading it
\* has stood still or moved on.
utcnow == now' \in {now, now + 1}

\* What no request touches.
ApiFrame == UNCHANGED <<pipeline_vars, processor_vars>>

\* get_db's except branch: rollback, close, and the error goes to the client.
Raise(s, code) ==
    /\ req' = [req EXCEPT ![s] = Answer(req[s].op, req[s].id, code)]
    /\ UNCHANGED <<articles, sources, now, nreq>>

\* The handler returns; get_db commits (nothing is pending) and closes.
Return(s) ==
    req' = [req EXCEPT ![s] = Answer(req[s].op, req[s].id, 200)]

\* A request arrives and FastAPI validates it into the handler's arguments.
Arrives ==
    /\ nreq < MaxRequests
    /\ nreq' = nreq + 1

(***************************************************************************)
(* routers/articles.py                                                     *)
(***************************************************************************)
\* list_articles and get_drafts: the count and the page are read.
list_articles(s) ==
    /\ req[s].pc = "idle"
    /\ Arrives
    /\ req' = [req EXCEPT ![s] = Answer("list_articles", 0, 200)]
    /\ UNCHANGED <<articles, sources, now>>
    /\ ApiFrame

\* The first statement of get_article, update_article, publish_article and
\* archive_article: select(Article).where(Article.id == article_id),
\* scalar_one_or_none, and the 404 when there is no such row.
SelectArticle(s) ==
    /\ req[s].pc = "idle"
    /\ Arrives
    /\ \E op \in ArticleOps, id \in RequestIds, body \in ArticleBodies :
          /\ op # "update_article" => body = EmptyBody
          /\ req' = [req EXCEPT ![s] =
                IF id \notin DOMAIN articles
                THEN Answer(op, id, 404)
                ELSE Loaded(op, id, model_dump(ArticleUpdate, body), articles[id])]
    /\ UNCHANGED <<articles, sources, now>>
    /\ ApiFrame

get_article(s) ==
    /\ req[s].pc = "handler"
    /\ req[s].op = "get_article"
    /\ Return(s)
    /\ UNCHANGED <<articles, sources, now, nreq>>
    /\ ApiFrame

\* for field, value in data.model_dump(exclude_unset=True).items(): setattr
update_article(s) ==
    /\ req[s].pc = "handler"
    /\ req[s].op = "update_article"
    /\ req' = [req EXCEPT ![s].local = SetAttrs(req[s].local, req[s].data),
                          ![s].pc = "commit"]
    /\ UNCHANGED <<articles, sources, now, nreq>>
    /\ ApiFrame

\* publish_article without its status check.
publish_article_unchecked(s) ==
    /\ req[s].pc = "handler"
    /\ req[s].op = "publish_article"
    /\ utcnow
    /\ req' = [req EXCEPT ![s].local.status = "published",
                          ![s].local.published_at = now',
                          ![s].pc = "commit"]
    /\ UNCHANGED <<articles, sources, nreq>>
    /\ ApiFrame

\* publish_article setting the status and leaving published_at as it was.
publish_article_unstamped(s) ==
    /\ req[s].pc = "handler"
    /\ req[s].op = "publish_article"
    /\ IF req[s].local.status = "published"
       THEN Raise(s, 400)
       ELSE /\ req' = [req EXCEPT ![s].local.status = "published",
                                  ![s].pc = "commit"]
            /\ UNCHANGED <<articles, sources, now, nreq>>
    /\ ApiFrame

\* The status check, then status and published_at set on the session's object.
publish_article(s) ==
    /\ req[s].pc = "handler"
    /\ req[s].op = "publish_article"
    /\ IF req[s].local.status = "published"
       THEN Raise(s, 400)
       ELSE /\ utcnow
            /\ req' = [req EXCEPT ![s].local.status = "published",
                                  ![s].local.published_at = now',
                                  ![s].pc = "commit"]
            /\ UNCHANGED <<articles, sources, nreq>>
    /\ ApiFrame

archive_article(s) ==
    /\ req[s].pc = "handler"
    /\ req[s].op = "archive_article"
    /\ req' = [req EXCEPT ![s].local.status = "archived", ![s].pc = "commit"]
    /\ UNCHANGED <<articles, sources, now, nreq>>
    /\ ApiFrame

\* await db.commit() in the three handlers: the flush writes the changed
\* columns of the row in one UPDATE and the transaction commits; when the
\* statement fails get_db rolls the session back.  archive_article returns
\* here, the other two go on to refresh the row.
CommitArticle(s) ==
    /\ req[s].pc = "commit"
    /\ req[s].op \in ArticleOps
    /\ IF IntegrityError(req[s])
       THEN Raise(s, 500)
       ELSE /\ articles' = [articles EXCEPT ![req[s].id] = Flushed(@, req[s])]
            /\ IF req[s].op = "archive_article"
               THEN Return(s)
               ELSE req' = [req EXCEPT ![s].pc = "refresh"]
            /\ UNCHANGED <<sources, now, nreq>>
    /\ ApiFrame

\* await db.refresh(row); return row
Refresh(s) ==
    /\ req[s].pc = "refresh"
    /\ Return(s)
    /\ UNCHANGED <<articles, sources, now, nreq>>
    /\ ApiFrame

(***************************************************************************)
(* routers/sources.py                                                      *)
(***************************************************************************)
list_sources(s) ==
    /\ req[s].pc = "idle"
    /\ Arrives
    /\ req' = [req EXCEPT ![s] = Answer("list_sources", 0, 200)]
    /\ UNCHANGED <<articles, sources, now>>
    /\ ApiFrame

\* Source(**data.model_dump()), db.add, await db.commit(): the INSERT, which
\* the unique slug fails when another row has it.  The new row's id is fresh.
create_source(s) ==
    /\ req[s].pc = "idle"
    /\ Arrives
    /\ \E slug \in SourceSlugs :
          LET id == Cardinality(DOMAIN sources) + 1
          IN IF \E i \in DOMAIN sources : sources[i].slug = slug
             THEN /\ req' = [req EXCEPT ![s] = Answer("create_source", 0, 500)]
                  /\ UNCHANGED sources
             ELSE /\ sources' = [i \in DOMAIN sources \cup {id} |->
                                    IF i = id THEN Source(slug) ELSE sources[i]]
                  /\ req' = [req EXCEPT ![s] =
                                [Loaded("create_source", id, EmptyBody, Source(slug))
                                    EXCEPT !.pc = "refresh"]]
    /\ UNCHANGED <<articles, now>>
    /\ ApiFrame

\* The first statement of update_source and trigger_scrape:
\* select(Source).where(Source.id == source_id), and the 404.
SelectSource(s) ==
    /\ req[s].pc = "idle"
    /\ Arrives
    /\ \E op \in SourceOps, id \in RequestIds, body \in SourceBodies :
          /\ op # "update_source" => body = EmptyBody
          /\ req' = [req EXCEPT ![s] =
                IF id \notin DOMAIN sources
                THEN Answer(op, id, 404)
                ELSE Loaded(op, id, model_dump(SourceUpdate, body), sources[id])]
    /\ UNCHANGED <<articles, sources, now>>
    /\ ApiFrame

update_source(s) ==
    /\ req[s].pc = "handler"
    /\ req[s].op = "update_source"
    /\ req' = [req EXCEPT ![s].local = SetAttrs(req[s].local, req[s].data),
                          ![s].pc = "commit"]
    /\ UNCHANGED <<articles, sources, now, nreq>>
    /\ ApiFrame

CommitSource(s) ==
    /\ req[s].pc = "commit"
    /\ req[s].op = "update_source"
    /\ IF IntegrityError(req[s])
       THEN Raise(s, 500)
       ELSE /\ sources' = [sources EXCEPT ![req[s].id] = Flushed(@, req[s])]
            /\ req' = [req EXCEPT ![s].pc = "refresh"]
            /\ UNCHANGED <<articles, now, nreq>>
    /\ ApiFrame

\* trigger_scrape putting the Source's stored items back in the queue.
trigger_scrape_requeue(s) ==
    /\ req[s].pc = "handler"
    /\ req[s].op = "trigger_scrape"
    /\ Return(s)
    /\ raw_articles' =
          [r \in DOMAIN raw_articles |->
              IF raw_articles[r].source_id = req[s].id
              THEN [raw_articles[r] EXCEPT !.processing_status = "pending"]
              ELSE raw_articles[r]]
    /\ UNCHANGED <<articles, sources, now, nreq, scraper, worker, scrape_tasks,
                   processor_vars>>

\* The Celery task is a TODO (scrape_source.delay is commented out): the
\* handler answers and puts nothing in scrape_tasks.
trigger_scrape(s) ==
    /\ req[s].pc = "handler"
    /\ req[s].op = "trigger_scrape"
    /\ Return(s)
    /\ UNCHANGED <<articles, sources, now, nreq>>
    /\ ApiFrame

\* One step of one request.
Request(s) ==
    \/ list_articles(s)
    \/ SelectArticle(s)
    \/ get_article(s)
    \/ update_article(s)
    \/ publish_article(s)
    \/ archive_article(s)
    \/ CommitArticle(s)
    \/ Refresh(s)
    \/ list_sources(s)
    \/ create_source(s)
    \/ SelectSource(s)
    \/ update_source(s)
    \/ CommitSource(s)
    \/ trigger_scrape(s)

InitApi ==
    /\ articles = [i \in ArticleIds |-> Article(i)]
    /\ sources = [i \in SourceIds |-> Source("s1")]
    /\ now = 1
    /\ req = [s \in Sessions |-> Idle]
    /\ nreq = 0

(***************************************************************************)
(* Python's str, as far as the processor uses it.  A TLA+ string cannot    *)
(* hold a backquote, so "~" stands for it: "~~~" is the Markdown fence.    *)
(***************************************************************************)
\* The character at position i of s, "" past its end.
Ch(s, i) == IF i >= 1 /\ i <= Len(s) THEN SubSeq(s, i, i) ELSE ""

\* sub occurs in s at position i.
OccursAt(sub, s, i) == i + Len(sub) - 1 <= Len(s) /\ SubSeq(s, i, i + Len(sub) - 1) = sub

\* The least member of a non-empty set of positions.
Least(S) == CHOOSE k \in S : \A j \in S : k <= j

\* str.find: the first position >= i where sub occurs in s, 0 when there is none.
Find(sub, s, i) ==
    LET hits == {k \in i..(Len(s) - Len(sub) + 1) : OccursAt(sub, s, k)}
    IN IF hits = {} THEN 0 ELSE Least(hits)

\* sub in s
Contains(sub, s) == Find(sub, s, 1) # 0

\* s.split(sep)[0]
SplitFirst(s, sep) ==
    LET i == Find(sep, s, 1) IN IF i = 0 THEN s ELSE SubSeq(s, 1, i - 1)

\* s.split(sep)[1], for an s that holds sep
SplitSecond(s, sep) ==
    LET i == Find(sep, s, 1)
    IN SplitFirst(SubSeq(s, i + Len(sep), Len(s)), sep)

Whitespace == {" ", "\n", "\t", "\r"}

\* The positions of s that hold no whitespace.
Inked(s) == {k \in 1..Len(s) : Ch(s, k) \notin Whitespace}

\* str.strip()
Strip(s) ==
    IF Inked(s) = {} THEN ""
    ELSE SubSeq(s, Least(Inked(s)), Least({k \in Inked(s) : \A j \in Inked(s) : j <= k}))

(***************************************************************************)
(* json.loads, on the texts the model hands it: objects, arrays, strings   *)
(* without escapes, non-negative integers and the three literals, with     *)
(* whitespace between tokens.  A parsed value is kept as its canonical     *)
(* text (no whitespace); a parsed object also as the map from its keys to  *)
(* the canonical texts of their values (a repeated key keeps the last).    *)
(* Not parsed as json.loads parses them, and in no text of the model:      *)
(* escapes, signs, fractions and exponents.                                *)
(***************************************************************************)
NoFields == [k \in {} |-> ""]

Fail == [ok |-> FALSE, pos |-> 0, repr |-> "", isobj |-> FALSE, obj |-> NoFields]

Val(pos, repr) ==
    [ok |-> TRUE, pos |-> pos, repr |-> repr, isobj |-> FALSE, obj |-> NoFields]

Obj(pos, repr, obj) ==
    [ok |-> TRUE, pos |-> pos, repr |-> repr, isobj |-> TRUE, obj |-> obj]

Digits == {"0", "1", "2", "3", "4", "5", "6", "7", "8", "9"}

\* The first position >= i that holds no whitespace (the end counts as one).
SkipWs(s, i) == Least({k \in i..(Len(s) + 1) : Ch(s, k) \notin Whitespace})

\* The position of the quote that closes a string whose text starts at i; 0
\* when the text ends first or holds a control character or a backslash.
StringEnd(s, i) ==
    LET e == Least({k \in i..(Len(s) + 1) :
                       Ch(s, k) \in {"", "\"", "\n", "\t", "\r", "\\"}})
    IN IF Ch(s, e) = "\"" THEN e ELSE 0

ParseString(s, i) ==
    LET e == StringEnd(s, i + 1)
    IN IF e = 0 THEN Fail ELSE Val(e + 1, SubSeq(s, i, e))

\* The first position >= i that holds no digit.
DigitsEnd(s, i) == Least({k \in i..(Len(s) + 1) : Ch(s, k) \notin Digits})

ParseNumber(s, i) ==
    IF Ch(s, i) = "0" THEN Val(i + 1, "0")
    ELSE LET e == DigitsEnd(s, i) IN Val(e, SubSeq(s, i, e - 1))

RECURSIVE ParseValue(_, _)
RECURSIVE ParseElems(_, _, _)
RECURSIVE ParseMembers(_, _, _, _)

ParseArray(s, i) ==
    LET j == SkipWs(s, i + 1)
    IN IF Ch(s, j) = "]" THEN Val(j + 1, "[]") ELSE ParseElems(s, j, "[")

ParseObject(s, i) ==
    LET j == SkipWs(s, i + 1)
    IN IF Ch(s, j) = "}" THEN Obj(j + 1, "{}", NoFields)
       ELSE ParseMembers(s, j, NoFields, "{")

ParseValue(s, i) ==
    LET c == Ch(s, i)
    IN CASE c = "{" -> ParseObject(s, i)
         [] c = "[" -> ParseArray(s, i)
         [] c = "\"" -> ParseString(s, i)
         [] c \in Digits -> ParseNumber(s, i)
         [] OccursAt("true", s, i) -> Val(i + 4, "true")
         [] OccursAt("false", s, i) -> Val(i + 5, "false")
         [] OccursAt("null", s, i) -> Val(i + 4, "null")
         [] OTHER -> Fail

ParseElems(s, j, acc) ==
    LET v == ParseValue(s, j)
        k == SkipWs(s, v.pos)
    IN IF ~v.ok THEN Fail
       ELSE IF Ch(s, k) = "," THEN ParseElems(s, SkipWs(s, k + 1), acc \o v.repr \o ",")
       ELSE IF Ch(s, k) = "]" THEN Val(k + 1, acc \o v.repr \o "]")
       ELSE Fail

ParseMembers(s, j, obj, acc) ==
    LET key == IF Ch(s, j) = "\"" THEN ParseString(s, j) ELSE Fail
        c == SkipWs(s, key.pos)
        v == IF key.ok /\ Ch(s, c) = ":" THEN ParseValue(s, SkipWs(s, c + 1)) ELSE Fail
        k == SkipWs(s, v.pos)
        name == SubSeq(key.repr, 2, Len(key.repr) - 1)
        more == (name :> v.repr) @@ obj
        text == acc \o key.repr \o ":" \o v.repr
    IN IF ~v.ok THEN Fail
       ELSE IF Ch(s, k) = "," THEN ParseMembers(s, SkipWs(s, k + 1), more, text \o ",")
       ELSE IF Ch(s, k) = "}" THEN Obj(k + 1, text \o "}", more)
       ELSE Fail

\* json.loads(s): one value, whitespace around it, nothing after it.
loads(s) ==
    LET v == ParseValue(s, SkipWs(s, 1))
    IN IF ~v.ok THEN Fail
       ELSE IF SkipWs(s, v.pos) <= Len(s) THEN Fail
       ELSE v

(***************************************************************************)
(* services/ai/processor.py: ArticleProcessor.                             *)
(*                                                                         *)
(* Money is counted in units of 1e-8 USD and a rate in cents per 1M        *)
(* tokens, so that (n / 1_000_000) * rate USD is n * rate units exactly.   *)
(***************************************************************************)
\* The values settings.AI_MODEL takes: the priced models, and for each
\* provider one the tables do not hold.
Models == {"gpt-4o", "gpt-4o-mini", "gpt-4-turbo", "o1-mini",
           "claude-3-5-sonnet-20241022", "claude-3-5-haiku-20241022",
           "claude-3-opus-20240229"}

\* The token counts a provider reports.
TokenCounts == {0, 500, 1000}

\* __init__: the provider the model's name selects.
ProviderOf(m) ==
    IF Contains("gpt", m) \/ Contains("o1", m) THEN "openai" ELSE "anthropic"

pricing_openai ==
    [m \in {"gpt-4o", "gpt-4o-mini", "gpt-4-turbo"} |->
        CASE m = "gpt-4o" -> [input |-> 250, output |-> 1000]
          [] m = "gpt-4o-mini" -> [input |-> 15, output |-> 60]
          [] m = "gpt-4-turbo" -> [input |-> 1000, output |-> 3000]]

pricing_anthropic ==
    [m \in {"claude-3-5-sonnet-20241022", "claude-3-5-haiku-20241022"} |->
        CASE m = "claude-3-5-sonnet-20241022" -> [input |-> 300, output |-> 1500]
          [] m = "claude-3-5-haiku-20241022" -> [input |-> 80, output |-> 400]]

\* dict.get(key, default)
Get(dict, key, default) == IF key \in DOMAIN dict THEN dict[key] ELSE default

\* _calculate_cost_openai charging the output tokens at the input rate.
calculate_cost_openai_one_rate(m, usage) ==
    LET rates == Get(pricing_openai, m, pricing_openai["gpt-4o"])
    IN usage.prompt_tokens * rates.input + usage.completion_tokens * rates.input

calculate_cost_openai(m, usage) ==
    LET rates == Get(pricing_openai, m, pricing_openai["gpt-4o"])
    IN usage.prompt_tokens * rates.input + usage.completion_tokens * rates.output

calculate_cost_anthropic(m, usage) ==
    LET rates == Get(pricing_anthropic, m,
                     pricing_anthropic["claude-3-5-sonnet-20241022"])
    IN usage.input_tokens * rates.input + usage.output_tokens * rates.output

\* The keys process documents in its result.
ResultKeys == <<"title", "excerpt", "content", "category", "tags",
                "significance_score">>

\* A document a provider may write: all the keys, the content holding a
\* Markdown fence, a key missing, or no key at all.
Draft ==
    [title |-> "\"a\"", excerpt |-> "\"b\"", content |-> "\"c\"",
     category |-> "\"d\"", tags |-> "[\"t\"]", significance_score |-> "5"]

Without(j, k) == [x \in DOMAIN j \ {k} |-> j[x]]

Documents ==
    {Draft, [Draft EXCEPT !.content = "\"x ~~~y~~~ z\""],
     Without(Draft, "significance_score"), Without(Draft, "title"), NoFields}

RECURSIVE DumpMembers(_, _)
DumpMembers(j, i) ==
    IF i > Len(ResultKeys) THEN ""
    ELSE LET k == ResultKeys[i]
             rest == DumpMembers(j, i + 1)
         IN IF k \notin DOMAIN j THEN rest
            ELSE "\"" \o k \o "\": " \o j[k]
                 \o (IF rest = "" THEN "" ELSE ", " \o rest)

\* The document as JSON text.
dumps(j) == "{" \o DumpMembers(j, 1) \o "}"

\* The shapes of a reply: the JSON text bare, in a fence, in a fence with
\* prose around it; or no document: cut short, a refusal, inside an array.
WellFormed == {"bare", "json_fence", "fence", "prose_json_fence", "prose_fence"}
Shapes == WellFormed \cup {"truncated", "refusal", "array"}

Reply(shape, j) ==
    LET text == dumps(j)
    IN CASE shape = "bare" -> text
         [] shape = "json_fence" -> "~~~json\n" \o text \o "\n~~~"
         [] shape = "fence" -> "~~~\n" \o text \o "\n~~~"
         [] shape = "prose_json_fence" ->
                "Here is the article:\n\n~~~json\n" \o text \o "\n~~~\nDone."
         [] shape = "prose_fence" ->
                "Here is the article:\n\n~~~\n" \o text \o "\n~~~\nDone."
         [] shape = "truncated" -> SubSeq(text, 1, Len(text) - 1)
         [] shape = "refusal" -> "I cannot process this article."
         [] shape = "array" -> "[" \o text \o "]"

NoResponse == [content |-> "", usage |-> [model |-> ""]]
NoSent == [document |-> NoFields, shape |-> "none"]
NoResult == [kind |-> "none", fields |-> NoFields, usage |-> [model |-> ""],
             cost_usd |-> 0]

\* The call ends in an exception.
Raised(kind) == [NoResult EXCEPT !.kind = kind]

\* json.loads, then the usage and the cost stored under two more keys (an
\* item assignment, which only a dict takes).
Loaded_json(content, usage, cost) ==
    LET parsed == loads(content)
    IN IF ~parsed.ok THEN Raised("JSONDecodeError")
       ELSE IF ~parsed.isobj THEN Raised("TypeError")
       ELSE [kind |-> "ok", fields |-> parsed.obj, usage |-> usage,
             cost_usd |-> cost]

\* The text between the first fence and the next one, when there is a fence.
ExtractJson(content) ==
    IF Contains("~~~json", content)
    THEN SplitFirst(SplitSecond(content, "~~~json"), "~~~")
    ELSE IF Contains("~~~", content)
    THEN SplitFirst(SplitSecond(content, "~~~"), "~~~")
    ELSE content

ProcessorFrame == UNCHANGED <<api_vars, pipeline_vars>>

InitProcessor(m) ==
    /\ model = m
    /\ provider = ProviderOf(m)
    /\ ppc = "idle"
    /\ response = NoResponse
    /\ sent = NoSent
    /\ result = NoResult

\* process: the prompt is rendered and the provider's method is entered, up
\* to its await of the provider.
process ==
    /\ ppc \in {"idle", "done"}
    /\ ppc' = "awaiting"
    /\ response' = NoResponse
    /\ sent' = NoSent
    /\ result' = NoResult
    /\ UNCHANGED <<model, provider>>
    /\ ProcessorFrame

\* The provider answers: some document in some shape, and its token counts.
ProviderResponds ==
    /\ ppc = "awaiting"
    /\ \E j \in Documents, shape \in Shapes, i \in TokenCounts, o \in TokenCounts :
          /\ sent' = [document |-> j, shape |-> shape]
          /\ response' =
                [content |-> Reply(shape, j),
                 usage |-> IF provider = "openai"
                           THEN [prompt_tokens |-> i, completion_tokens |-> o]
                           ELSE [input_tokens |-> i, output_tokens |-> o]]
    /\ ppc' = "responded"
    /\ UNCHANGED <<model, provider, result>>
    /\ ProcessorFrame

\* The provider call fails or times out: its exception leaves process.
ProviderFails ==
    /\ ppc = "awaiting"
    /\ result' = Raised("APIError")
    /\ ppc' = "done"
    /\ UNCHANGED <<model, provider, response, sent>>
    /\ ProcessorFrame

process_openai ==
    /\ ppc = "responded"
    /\ provider = "openai"
    /\ result' = Loaded_json(response.content,
                             [prompt_tokens |-> response.usage.prompt_tokens,
                              completion_tokens |-> response.usage.completion_tokens,
                              model |-> model],
                             calculate_cost_openai(model, response.usage))
    /\ ppc' = "done"
    /\ UNCHANGED <<model, provider, response, sent>>
    /\ ProcessorFrame

process_anthropic ==
    /\ ppc = "responded"
    /\ provider = "anthropic"
    /\ result' = Loaded_json(Strip(ExtractJson(response.content)),
                             [input_tokens |-> response.usage.input_tokens,
                              output_tokens |-> response.usage.output_tokens,
                              model |-> model],
                             calculate_cost_anthropic(model, response.usage))
    /\ ppc' = "done"
    /\ UNCHANGED <<model, provider, response, sent>>
    /\ ProcessorFrame

NextProcessor ==
    \/ process
    \/ ProviderResponds
    \/ ProviderFails
    \/ process_openai
    \/ process_anthropic

(***************************************************************************)
(* models/article.py: the raw_articles table.                              *)
(***************************************************************************)
MaxRawArticles == 3

ExternalIds == {"a1", "a2", "a3"}

\* RawArticle(source_id=..., external_id=...): processing_status takes its
\* column default.
RawArticle(source_id, external_id) ==
    [source_id |-> source_id, external_id |-> external_id,
     processing_status |-> "pending"]

\* INSERT INTO raw_articles.  __table_args__ declares no UniqueConstraint and
\* no column but the primary key is unique, so the table takes every row.
InsertRawArticle(rows, row) ==
    LET id == Cardinality(DOMAIN rows) + 1
    IN [i \in DOMAIN rows \cup {id} |-> IF i = id THEN row ELSE rows[i]]

(***************************************************************************)
(* The Scheduler's scrape of a Source, item by item: skip the item when    *)
(* its (source_id, external_id) is stored, insert it as pending otherwise. *)
(***************************************************************************)
Scrapers == {"c1", "c2"}

NoItem == [pc |-> "idle", source_id |-> 0, external_id |-> ""]

Stored(source_id, external_id) ==
    \E r \in DOMAIN raw_articles :
        /\ raw_articles[r].source_id = source_id
        /\ raw_articles[r].external_id = external_id

ScrapeFrame == UNCHANGED <<api_vars, processor_vars, worker, scrape_tasks>>

\* The adapter returns an item and the scraper looks its key up.
ScrapeLookup(c) ==
    /\ scraper[c].pc = "idle"
    /\ Cardinality(DOMAIN raw_articles)
         + Cardinality({d \in Scrapers : scraper[d].pc = "insert"}) < MaxRawArticles
    /\ \E src \in DOMAIN sources, ext \in ExternalIds :
          scraper' = [scraper EXCEPT ![c] =
              IF Stored(src, ext) THEN NoItem
              ELSE [pc |-> "insert", source_id |-> src, external_id |-> ext]]
    /\ UNCHANGED raw_articles
    /\ ScrapeFrame

\* The scraper inserts the item it did not find.
ScrapeInsert(c) ==
    /\ scraper[c].pc = "insert"
    /\ raw_articles' = InsertRawArticle(raw_articles,
           RawArticle(scraper[c].source_id, scraper[c].external_id))
    /\ scraper' = [scraper EXCEPT ![c] = NoItem]
    /\ ScrapeFrame

NextScrape == \E c \in Scrapers : ScrapeLookup(c) \/ ScrapeInsert(c)

(***************************************************************************)
(* The Pipeline Orchestrator: a worker picks a pending RawArticle, claims  *)
(* it, and takes it to a terminal status.                                  *)
(***************************************************************************)
Workers == {"w1", "w2"}

\* The rows the pipeline starts from, as the Scheduler stored them.
RawIds == {1, 2}

Free == [pc |-> "idle", row |-> 0]

Holds(w, r) == worker[w].pc = "processing" /\ worker[w].row = r

SetStatus(r, status) ==
    raw_articles' = [raw_articles EXCEPT ![r].processing_status = status]

PipelineFrame ==
    UNCHANGED <<sources, now, req, nreq, processor_vars, scraper, scrape_tasks>>

\* A worker sees a pending row.
Pick(w) ==
    /\ worker[w].pc = "idle"
    /\ \E r \in DOMAIN raw_articles :
          /\ raw_articles[r].processing_status = "pending"
          /\ worker' = [worker EXCEPT ![w] = [pc |-> "picked", row |-> r]]
    /\ UNCHANGED <<raw_articles, articles>>
    /\ PipelineFrame

\* The claim without its condition: the status is written whatever it is.
ClaimUnconditional(w) ==
    /\ worker[w].pc = "picked"
    /\ SetStatus(worker[w].row, "processing")
    /\ worker' = [worker EXCEPT ![w].pc = "processing"]
    /\ UNCHANGED articles
    /\ PipelineFrame

\* The claim: UPDATE ... SET processing_status = 'processing' WHERE id = r AND
\* processing_status = 'pending'.  No row updated is ClaimConflict.
Claim(w) ==
    /\ worker[w].pc = "picked"
    /\ IF raw_articles[worker[w].row].processing_status = "pending"
       THEN /\ SetStatus(worker[w].row, "processing")
            /\ worker' = [worker EXCEPT ![w].pc = "processing"]
       ELSE /\ worker' = [worker EXCEPT ![w].pc = "ClaimConflict"]
            /\ UNCHANGED raw_articles
    /\ UNCHANGED articles
    /\ PipelineFrame

\* ClaimConflict is dropped: another worker owns the item.
Skip(w) ==
    /\ worker[w].pc = "ClaimConflict"
    /\ worker' = [worker EXCEPT ![w] = Free]
    /\ UNCHANGED <<raw_articles, articles>>
    /\ PipelineFrame

\* The Dedup Engine finds the item's story stored.
MarkDuplicate(w) ==
    /\ worker[w].pc = "processing"
    /\ SetStatus(worker[w].row, "duplicate")
    /\ worker' = [worker EXCEPT ![w] = Free]
    /\ UNCHANGED articles
    /\ PipelineFrame

\* The AI Transformer succeeds: the draft Article is created.
MarkProcessed(w) ==
    /\ worker[w].pc = "processing"
    /\ SetStatus(worker[w].row, "processed")
    /\ LET id == Cardinality(DOMAIN articles) + 1
       IN articles' = [i \in DOMAIN articles \cup {id} |->
                          IF i = id THEN Article(id) ELSE articles[i]]
    /\ worker' = [worker EXCEPT ![w] = Free]
    /\ PipelineFrame

\* EmbeddingError or ProcessingError.
MarkFailed(w) ==
    /\ worker[w].pc = "processing"
    /\ SetStatus(worker[w].row, "failed")
    /\ worker' = [worker EXCEPT ![w] = Free]
    /\ UNCHANGED articles
    /\ PipelineFrame

\* Shutdown: the worker gives its claim back.
Revert(w) ==
    /\ worker[w].pc = "processing"
    /\ SetStatus(worker[w].row, "pending")
    /\ worker' = [worker EXCEPT ![w] = Free]
    /\ UNCHANGED articles
    /\ PipelineFrame

\* The worker dies; its row stays in processing.
Crash(w) ==
    /\ worker[w].pc = "processing"
    /\ worker' = [worker EXCEPT ![w] = Free]
    /\ UNCHANGED <<raw_articles, articles>>
    /\ PipelineFrame

\* A row left in processing past the staleness timeout, which outlasts any
\* worker at work, is made pending again.
Reclaim(r) ==
    /\ raw_articles[r].processing_status = "processing"
    /\ \A w \in Workers : ~Holds(w, r)
    /\ SetStatus(r, "pending")
    /\ UNCHANGED <<worker, articles>>
    /\ PipelineFrame

Orchestrate(w) ==
    \/ Pick(w)
    \/ Claim(w)
    \/ Skip(w)
    \/ MarkDuplicate(w)
    \/ MarkProcessed(w)
    \/ MarkFailed(w)
    \/ Revert(w)
    \/ Crash(w)

(***************************************************************************)
(* Specifications.                                                         *)
(***************************************************************************)
\* The API serving requests; the pipeline and the processor at rest.
Init ==
    /\ InitApi
    /\ raw_articles = [r \in RawIds |-> RawArticle(1, IF r = 1 THEN "a1" ELSE "a2")]
    /\ scraper = [c \in Scrapers |-> NoItem]
    /\ worker = [w \in Workers |-> Free]
    /\ scrape_tasks = << >>
    /\ InitProcessor("gpt-4o")

Next == \E s \in Sessions : Request(s)

Spec == Init /\ [][Next]_vars

\* The processor, for every model it may be configured with.
InitProcessorSpec ==
    /\ InitApi
    /\ raw_articles = [r \in RawIds |-> RawArticle(1, IF r = 1 THEN "a1" ELSE "a2")]
    /\ scraper = [c \in Scrapers |-> NoItem]
    /\ worker = [w \in Workers |-> Free]
    /\ scrape_tasks = << >>
    /\ \E m \in Models : InitProcessor(m)

SpecProcessor == InitProcessorSpec /\ [][NextProcessor]_vars

\* The Scheduler's scrapers filling an empty raw_articles table.
InitScrape ==
    /\ InitApi
    /\ raw_articles = [r \in {} |-> RawArticle(1, "a1")]
    /\ scraper = [c \in Scrapers |-> NoItem]
    /\ worker = [w \in Workers |-> Free]
    /\ scrape_tasks = << >>
    /\ InitProcessor("gpt-4o")

SpecScrape == InitScrape /\ [][NextScrape]_vars

\* The orchestrator's workers on the stored rows, beside an API that has
\* served requests before and serves one more.
InitPipeline ==
    /\ articles = [i \in ArticleIds |-> Article(i)]
    /\ sources = [i \in SourceIds |-> Source("s1")]
    /\ now = 1
    /\ req = [s \in Sessions |-> Idle]
    /\ nreq = MaxRequests - 1
    /\ raw_articles = [r \in RawIds |-> RawArticle(1, IF r = 1 THEN "a1" ELSE "a2")]
    /\ scraper = [c \in Scrapers |-> NoItem]
    /\ worker = [w \in Workers |-> Free]
    /\ scrape_tasks = << >>
    /\ InitProcessor("gpt-4o")

NextPipeline ==
    \/ \E w \in Workers : Orchestrate(w)
    \/ \E r \in RawIds : Reclaim(r)
    \/ \E s \in Sessions : Request(s)

SpecPipeline == InitPipeline /\ [][NextPipeline]_vars

(***************************************************************************)
(* Claims about the articles router.                                       *)
(***************************************************************************)
\* Session s takes the step.
Steps(s) == req'[s] # req[s]

\* Session s commits the publish it prepared.
PublishCommits(s) ==
    /\ req[s].op = "publish_article"
    /\ req[s].pc = "commit"
    /\ req'[s].pc = "refresh"

\* C1: a rejected publish or edit leaves state unchanged.  A step that answers
\* a request with a 4xx code changes no column of any Article; a publish that
\* read the Article as already published is answered 400; and a request for
\* an id that names no row is answered 404.
C1_RejectedRequestsChangeNothing ==
    [][\A s \in Sessions :
         /\ (Steps(s) /\ req'[s].resp \in 400..499) => articles' = articles
         /\ (/\ Steps(s)
             /\ req[s].pc = "handler"
             /\ req[s].op = "publish_article"
             /\ req[s].local.status = "published")
            => (req'[s].resp = 400 /\ articles' = articles)
         /\ (/\ Steps(s)
             /\ req'[s].op \in {"update_article", "publish_article"}
             /\ req'[s].id \notin DOMAIN articles)
            => (req'[s].resp = 404 /\ articles' = articles)]_vars

\* C1's case: a publish of a published Article has been answered 400, and the
\* row still carries the status and the stamp of the first publish.
C1_Witness ==
    \E s \in Sessions :
        /\ req[s].op = "publish_article"
        /\ req[s].resp = 400
        /\ articles[req[s].id].status = "published"
        /\ articles[req[s].id].published_at # 0

\* C2: the publish transition is draft/review -> published.  publish_article
\* moves to published only an Article it read as draft or review; one it read
\* in any other status, archived in particular, it does not publish.
C2_PublishOnlyFromDraftOrReview ==
    [][\A s \in Sessions :
         PublishCommits(s) => req[s].loaded.status \in {"draft", "review"}]_vars

\* C3: of the publish requests that run concurrently on one draft Article,
\* exactly one succeeds and the others are rejected without overwriting
\* published_at: a publish that read the Article as draft never commits onto
\* a row another request has published in the meantime.
C3_ConcurrentPublishOnce ==
    [][\A s \in Sessions :
         (PublishCommits(s) /\ req[s].loaded.status = "draft")
         => /\ articles[req[s].id].status # "published"
            /\ articles[req[s].id].published_at = 0]_vars

\* C4: update_article changes only the editable fields, and of those only the
\* ones the payload supplies.  In every step of an update request, a column of
\* a row that differs afterwards is one of title, excerpt, content, category,
\* tags and cover_image_url, is supplied by the payload and holds the
\* payload's value; every other column keeps its value.
C4_EditableFields ==
    {"title", "excerpt", "content", "category", "tags", "cover_image_url"}

C5_InputTokens ==
    IF provider = "openai" THEN result.usage.prompt_tokens
    ELSE result.usage.input_tokens

C5_OutputTokens ==
    IF provider = "openai" THEN result.usage.completion_tokens
    ELSE result.usage.output_tokens

\* The static pricing table, and the rates of a model: its entry, or the
\* entry of its provider's default model.
C5_Table == pricing_openai @@ pricing_anthropic

C5_Rates ==
    IF model \in DOMAIN C5_Table THEN C5_Table[model]
    ELSE IF provider = "openai" THEN C5_Table["gpt-4o"]
    ELSE C5_Table["claude-3-5-sonnet-20241022"]

\* C5: for every configured model and token counts, the cost of a call that
\* returns is input_tokens / 1e6 * input_rate + output_tokens / 1e6 *
\* output_rate at the model's rates or, without an entry, the default
\* model's; a call whose reply is the bare document returns whether or not
\* the table holds the model; and 1000 input and 500 output tokens at 2.50 and
\* 10.00 per 1M cost 0.0075 USD (750000 units of 1e-8 USD).
C5_CostMatchesRateTable ==
    ppc = "done" =>
        /\ (sent.shape = "bare" /\ sent.document = Draft) => result.kind = "ok"
        /\ result.kind = "ok" =>
              result.cost_usd = C5_InputTokens * C5_Rates.input
                                + C5_OutputTokens * C5_Rates.output
        /\ (/\ result.kind = "ok"
            /\ C5_Rates = [input |-> 250, output |-> 1000]
            /\ C5_InputTokens = 1000
            /\ C5_OutputTokens = 500)
           => result.cost_usd = 750000

\* C5's case: a model without an entry, 1000 and 500 tokens, and the cost at
\* the default model's rates.
C5_Witness ==
    /\ ppc = "done"
    /\ model = "o1-mini"
    /\ result.kind = "ok"
    /\ result.usage.prompt_tokens = 1000
    /\ result.usage.completion_tokens = 500
    /\ result.cost_usd = 750000

\* C6: on every provider path, a reply that is the document bare, or in a
\* fence with or without prose around it, parses to the document, also when
\* a string of the document holds a fence.
C6_FencedParsesAsBare ==
    (ppc = "done" /\ sent.shape \in WellFormed)
    => (result.kind = "ok" /\ result.fields = sent.document)

\* C7: process raises ProcessingError when the reply is no JSON or lacks a
\* required field, and every result it returns holds the six required fields.
C7_Required ==
    {"title", "excerpt", "content", "category", "tags", "significance_score"}

C7_UnparseableRaisesProcessingError ==
    ppc = "done" =>
        /\ result.kind = "ok" => C7_Required \subseteq DOMAIN result.fields
        /\ (\/ sent.shape \in {"truncated", "refusal"}
            \/ (sent.shape # "none" /\ ~(C7_Required \subseteq DOMAIN sent.document)))
           => result.kind = "ProcessingError"

(***************************************************************************)
(* Claims about the raw_articles table and the pipeline.                   *)
(***************************************************************************)
\* C8: (source_id, external_id) is unique among RawArticles in every
\* reachable state, also when two inserts of one pair race.
C8_SourceExternalIdUnique ==
    \A r1 \in DOMAIN raw_articles : \A r2 \in DOMAIN raw_articles :
        (/\ raw_articles[r1].source_id = raw_articles[r2].source_id
         /\ raw_articles[r1].external_id = raw_articles[r2].external_id)
        => r1 = r2

\* C9: a RawArticle's processing_status moves only pending -> processing ->
\* processed, duplicate or failed, and back only processing -> pending; no
\* row is removed and no other field of a row changes; and no step of a
\* request of the articles or sources router changes the table.
C9_Moves ==
    {<<"pending", "processing">>, <<"processing", "processed">>,
     <<"processing", "duplicate">>, <<"processing", "failed">>,
     <<"processing", "pending">>}

C11_Answers(s, code) ==
    /\ Steps(s)
    /\ req'[s].op = "trigger_scrape"
    /\ req'[s].pc = "idle"
    /\ req'[s].resp = code

\* C11: trigger_scrape enqueues a scrape job.  A request that answers
\* scraping_started (200) names an existing Source and has put a task for
\* that Source at the end of the queue; a request that answers not found
\* (404) names no Source and leaves the queue as it was.
C11_TriggerScrapeEnqueues ==
    [][\A s \in Sessions :
         /\ C11_Answers(s, 200) =>
               /\ req'[s].id \in DOMAIN sources
               /\ scrape_tasks' = Append(scrape_tasks, req'[s].id)
         /\ C11_Answers(s, 404) =>
               /\ req'[s].id \notin DOMAIN sources
               /\ scrape_tasks' = scrape_tasks]_vars

\* C11's case: a trigger_scrape request for an existing Source was answered
\* scraping_started.
C11_Witness ==
    \E s \in Sessions :
        /\ req[s].op = "trigger_scrape"
        /\ req[s].pc = "idle"
        /\ req[s].resp = 200
        /\ req[s].id \in DOMAIN sources

\* C12: from Articles created as drafts with published_at unset, through
\* every interleaving of update, publish and archive requests: an Article
\* whose status is published has published_at set; published_at, once set,
\* stays set; and an Article whose published_at is unset is a draft, in
\* review or archived, and was not published the step before.
C12_PublishedHasPublishedAt ==
    [][\A i \in ArticleIds :
         /\ articles[i].status = "published" => articles[i].published_at # 0
         /\ articles'[i].status = "published" => articles'[i].published_at # 0
         /\ articles[i].published_at # 0 => articles'[i].published_at # 0
         /\ articles'[i].published_at = 0 =>
               /\ articles'[i].status \in {"draft", "review", "archived"}
               /\ articles[i].status # "published"]_vars

\* C12's case: a publish request went through and the Article it published
\* carries the stamp.
C12_Witness ==
    \E s \in Sessions :
        /\ req[s].op = "publish_article"
        /\ req[s].pc = "idle"
        /\ req[s].resp = 200
        /\ articles[req[s].id].status = "published"
        /\ articles[req[s].id].published_at # 0

====
